---- MODULE Spec2Model ----
(***************************************************************************)
(* Builders generated by the `Builder` derive of bob.                       *)
(*                                                                         *)
(* Two generators are modelled: the nullable-slot generator (strategy A,   *)
(* src/src/lib.rs) and the raw-slot generator (strategy B,                 *)
(* src/bob/src/lib.rs).  A run fixes one record declaration and one        *)
(* generator in Init and then applies the generated API -- constructor,    *)
(* setters, clone, inspect (Debug), drop and build -- to a bounded pool of *)
(* builders.  The type state of a builder (its marker vector followed by   *)
(* the record's own type parameters) is kept beside its storage, so that   *)
(* what the type checker admits and what the storage holds are separate    *)
(* facts the checks can relate.                                            *)
(***************************************************************************)
EXTENDS Integers, Sequences, FiniteSets, TLC

\* ------------------------------------------------------------------ bounds
MaxFields == 3
MaxBuilders == 2
MaxNew == 1
MaxVal == 2
MaxAttrs == 2
GenFields == 2

\* ------------------------------------------------------------------ values
\* Values a caller can hand to a setter.
Vals == 1..MaxVal
\* Option::None, the content of an empty nullable slot.
NoneVal == 0
\* The content of a slot produced by mem::uninitialized().
Uninit == -1
\* What Debug shows for the unit struct `Uninitialized`.
Placeholder == -2

Builders == 1..MaxBuilders

\* Declared field types, by the first segment of their path.
FieldTypes == {"Item", "Option"}

\* The record declarations considered: every field list of 1..MaxFields fields.
Schemas == UNION {[1..n -> FieldTypes] : n \in 1..MaxFields}

\* The record's own type parameters (item.generics).
GenericsChoices == {<<>>, <<"T">>}

Strategies == {"A", "B"}

VARIABLES
    item,       \* the derive input a create_builder call is working on
    gen,        \* that call's progress: its stage, what it read, its tokens, its outcome
    strategy,   \* which generator produced the builder API
    schema,     \* the record's fields, in declaration order (their types)
    generics,   \* the record's own type parameters
    fields,     \* the declaration indexes of the required fields, in order
    opt_fields, \* the declaration indexes of the optional fields, in order
    derives,    \* the capabilities the generated builder has (Clone, Debug)
    validator,  \* the validator build passes the record through, and its error type
    status,     \* per builder: "none", "live", "built", "dropped"
    ty,         \* per builder: its type arguments, markers first
    inner,      \* per builder: required-field storage [tag, f]
    opt,        \* per builder: optional-field storage
    released,   \* per builder and required slot: how often its content was released
    touched,    \* raw-slot accesses that met an Unset marker or a slot holding no value
    panics,     \* internal assertions that fired
    args,       \* per builder and declared field: the value last handed to its setter
    out,        \* what the last operation returned to its caller
    variant,    \* how the last operation's return value is wrapped: Record, Ok, Err
    called      \* the validator calls the last operation made, in order

vars == <<item, gen, strategy, schema, generics, fields, opt_fields, derives, validator,
          status, ty, inner, opt, released, touched, panics, args, out, variant, called>>

config == <<item, gen, strategy, schema, generics, fields, opt_fields, derives, validator>>

\* -------------------------------------------------------------- directives
\* A literal: a string, or something else (a number).
Str(v) == [str |-> TRUE, v |-> v]

NotStr(v) == [str |-> FALSE, v |-> v]

NoLit == NotStr("")

\* The entries of a list directive: key = literal, or a bare word.
KeyValue(key, lit) == [form |-> "NameValue", key |-> key, lit |-> lit]

Word(key) == [form |-> "Word", key |-> key, lit |-> NoLit]

\* An attribute: #[name(entries)] or #[name = literal].
List(name, nested) == [form |-> "List", name |-> name, lit |-> NoLit, nested |-> nested]

NameValue(name, lit) == [form |-> "NameValue", name |-> name, lit |-> lit, nested |-> <<>>]

\* A path string syn cannot parse.
MalformedPath == "%"

parse_path(v) == IF v = MalformedPath THEN <<>> ELSE <<v>>

\* iter.next(), and whether the iterator had more to give (the assertion).
collect_most_one(iter) ==
    [result |-> IF iter = <<>> THEN <<>> ELSE <<iter[1]>>, more |-> Len(iter) > 1]

DefaultNames == [builder |-> "Builder", new |-> "new", build |-> "build"]

Named_from_str(key) == key \in {"builder", "new", "build"}

IsNamesList(a) == a.form = "List" /\ a.name = "builder_names"

NamedEntry(e) == e.form = "NameValue" /\ Named_from_str(e.key) /\ e.lit.str

RECURSIVE FoldNames(_, _)
FoldNames(acc, es) ==
    IF es = <<>> THEN acc
    ELSE FoldNames([acc EXCEPT ![Head(es).key] = Head(es).lit.v], Tail(es))

\* Strategy B: the builder, constructor and build names.
get_builder_names(attrs) ==
    LET one == collect_most_one(SelectSeq(attrs, IsNamesList))
        value == IF one.result = <<>> THEN <<>> ELSE one.result[1].nested
    IN  [panic |-> IF one.more
                   THEN "Only one #[builder_name] attribute supported for struct."
                   ELSE "",
         names |-> FoldNames(DefaultNames, SelectSeq(value, NamedEntry))]

IsPrefix(a) == a.form = "NameValue" /\ a.name = "builder_prefix" /\ a.lit.str

\* Strategy B: the setter prefix of an item (the record, or one field).
get_setter_prefix(attrs, default) ==
    LET one == collect_most_one(SelectSeq(attrs, IsPrefix))
    IN  [panic |-> IF one.more
                   THEN "Only one #[builder_prefix] attribute supported per item."
                   ELSE "",
         prefix |-> IF one.result = <<>> THEN default ELSE one.result[1].lit.v]

IsDeriveList(a) == a.form = "List" /\ a.name = "builder_derive"

\* Strategy B: the words of every #[builder_derive(..)] of the record.
get_derives(attrs) ==
    UNION {{a.nested[n].key : n \in {m \in 1..Len(a.nested) : a.nested[m].form = "Word"}} :
             a \in {attrs[x] : x \in {y \in 1..Len(attrs) : IsDeriveList(attrs[y])}}}

IsValidateList(a) == a.form = "List" /\ a.name = "builder_validate"

ValidateEntry(e) ==
    e.form = "NameValue" /\ e.key \in {"validator", "error"} /\ e.lit.str

RECURSIVE FoldValidator(_, _)
FoldValidator(acc, es) ==
    IF es = <<>> THEN acc
    ELSE FoldValidator(
             IF Head(es).key = "validator"
             THEN [acc EXCEPT !.v = parse_path(Head(es).lit.v)]
             ELSE [acc EXCEPT !.e = parse_path(Head(es).lit.v)],
             Tail(es))

\* Strategy B: the validator function and its error type.
get_validator(attrs, default) ==
    LET one == collect_most_one(SelectSeq(attrs, IsValidateList))
        es == IF one.result = <<>> THEN <<>> ELSE SelectSeq(one.result[1].nested, ValidateEntry)
        folded == FoldValidator([v |-> <<>>, e |-> <<>>], es)
    IN  IF one.more
        THEN [panic |-> "Only one #[builder_validate] attribute supported for struct.",
              validator |-> default]
        ELSE IF one.result = <<>>
        THEN [panic |-> "", validator |-> default]
        ELSE IF \E n \in 1..Len(es) : parse_path(es[n].lit.v) = <<>>
        THEN [panic |-> "Malformed path given to builder_validate attribute",
              validator |-> default]
        ELSE IF folded.v = <<>>
        THEN [panic |-> "Validator function has to be provided for builder_validate attribute.",
              validator |-> default]
        ELSE [panic |-> "",
              validator |-> [fn |-> folded.v[1],
                             error |-> IF folded.e = <<>> THEN "none" ELSE folded.e[1]]]

\* Strategy A looks every directive up with next(): the first that fits.
IsRenameList(a) == a.form = "List" /\ a.name = "builder_rename"

RenameEntry(e) == e.form = "NameValue" /\ e.key \in {"new", "build"} /\ e.lit.str

IsBuilderName(a) == a.form = "NameValue" /\ a.name = "builder_name" /\ a.lit.str

\* Strategy A: the names, from #[builder_rename(..)] and #[builder_name = ".."].
names_A(attrs) ==
    LET renames == SelectSeq(attrs, IsRenameList)
        named == SelectSeq(attrs, IsBuilderName)
        methods == IF renames = <<>> THEN [new |-> "new", build |-> "build"]
                   ELSE FoldNames([new |-> "DUMMY", build |-> "DUMMY"],
                                  SelectSeq(renames[1].nested, RenameEntry))
    IN  [builder |-> IF named = <<>> THEN "Builder" ELSE named[1].lit.v,
         new |-> methods.new,
         build |-> methods.build]

\* Strategy A: the setter prefix of an item.
prefix_A(attrs, default) ==
    LET found == SelectSeq(attrs, IsPrefix)
    IN  IF found = <<>> THEN default ELSE found[1].lit.v

\* ------------------------------------------------------------ schema model
\* The segments of a declared type's path: Option<..> and Item are written with
\* one segment, std::option::Option<..> with three.
Segments(t) == IF t = "std::option::Option" THEN <<"std", "option", "Option">> ELSE <<t>>

\* The first segment of the path is compared with Option.
is_option(t) == Segments(t)[1] = "Option"

AllIdx == [i \in 1..Len(schema) |-> i]

RequiredField(i) == ~is_option(schema[i])

OptionalField(i) == is_option(schema[i])

\* Variant: every field is taken for a required one.
partition_AllRequired == [opt |-> <<>>, req |-> AllIdx]

\* The generator splits the enumerated fields once, keeping declaration order:
\* the fields whose type is an Option, and the others.
partition == [opt |-> SelectSeq(AllIdx, OptionalField), req |-> SelectSeq(AllIdx, RequiredField)]

R == Len(fields)

P == Len(opt_fields)

\* ---------------------------------------------------------- type state
\* One unbound marker parameter per required field.
builder_ty_params == [j \in 1..R |-> "_"]

add_ty_params(g, params) == params \o g

change_index(params, i, ident) ==
    [j \in 1..Len(params) |-> IF j = i THEN ident ELSE params[j]]

\* Variant: the constructor's return type names the Set marker.
start_generics_Set == add_ty_params(generics, [j \in 1..R |-> "I"])

start_generics == add_ty_params(generics, [j \in 1..R |-> "O"])

\* Variant: the build impl leaves the last marker parameter unbound.
end_generics_LastUnbound ==
    add_ty_params(generics, [j \in 1..R |-> IF j = R THEN "_" ELSE "I"])

end_generics == add_ty_params(generics, [j \in 1..R |-> "I"])

\* Variant: the setter's impl does not bind its own marker to O.
set_generics_AnyMarker(i) == add_ty_params(generics, builder_ty_params)

set_generics(i) == add_ty_params(generics, change_index(builder_ty_params, i, "O"))

\* Variant: the setter's return type marks every field Set.
after_set_generics_AllSet(i) == add_ty_params(generics, [j \in 1..R |-> "I"])

after_set_generics(i) == add_ty_params(generics, change_index(builder_ty_params, i, "I"))

\* Variant: the optional setter is generated on the all-Unset builder only.
ext_ty_generics_Start == add_ty_params(generics, [j \in 1..R |-> "O"])

ext_ty_generics == add_ty_params(generics, builder_ty_params)

\* A method of `impl<..> Builder<pattern>` is callable on a builder of type t
\* when t is an instance of the pattern; "_" is an unbound parameter.
Matches(pattern, t) ==
    /\ Len(pattern) = Len(t)
    /\ \A j \in 1..Len(t) : pattern[j] = "_" \/ pattern[j] = t[j]

\* Variant: the unbound parameters of the return type fall back to O.
Instantiate_Reset(pattern, t) ==
    [j \in 1..Len(t) |-> IF pattern[j] = "_" THEN "O" ELSE pattern[j]]

\* The return type: the pattern's unbound parameters keep the receiver's.
Instantiate(pattern, t) ==
    [j \in 1..Len(t) |-> IF pattern[j] = "_" THEN t[j] ELSE pattern[j]]

Marker(b, k) == ty[b][k]

Markers(b) == SubSeq(ty[b], 1, R)

\* ------------------------------------------------------------- storage
EmptyInner == [tag |-> "Empty", f |-> <<>>]

\* The storage the constructor creates.
NewInner ==
    IF strategy = "B"
    THEN [tag |-> "Inner", f |-> [k \in 1..R |-> Uninit]]
    ELSE [tag |-> "Struct", f |-> [k \in 1..R |-> NoneVal]]

NewOpt == [j \in 1..P |-> NoneVal]

\* What an operation hands back: the builder a constructor or clone made, the
\* text inspect produced, the record build assembled; Quiet for the others.
Result(op, b, from, val) == [op |-> op, b |-> b, from |-> from, val |-> val]

Quiet == Result("step", 0, 0, <<>>)

Free(b) == status[b] = "none"

\* Variant: a builder that was built is still taken for a usable one.
Live_AfterBuild(b) == status[b] \in {"live", "built"}

Live(b) == status[b] = "live"

\* A new builder is bound to the first unused builder name.
NextFree(b) == Free(b) /\ \A c \in 1..(b - 1) : ~Free(c)

\* Strategy A derives Clone and Debug on every builder; strategy B generates
\* them when #[builder_derive(..)] asks for them.
DeriveChoices ==
    IF strategy = "A" THEN {{"Clone", "Debug"}} ELSE SUBSET {"Clone", "Debug"}

\* Once an access of uninitialized storage or an internal assertion has
\* happened the run has left defined behaviour and is not followed further.
Defined == touched = {} /\ panics = {}

\* ----------------------------------------------------------- generation
\* The derive input: what the item is, its attributes, and the attributes of
\* each of its fields.
Item(body, attrs, fattrs) == [body |-> body, attrs |-> attrs, fattrs |-> fattrs]

\* No generator call is under way: the builder API exists and is in use.
NoItem == Item("Struct", <<>>, <<>>)

\* One piece of generated code: a type, a method or an impl, with its name.
Chunk(kind, name) == [kind |-> kind, name |-> name]

\* The state of a create_builder call: its stage, the names and the prefix it
\* read, the tokens gathered so far (tks), the token stream it returned (ret)
\* and the message of the panic that ended it (err).
Call(pc, names, prefix, tks, ret, err) ==
    [pc |-> pc, names |-> names, prefix |-> prefix, tks |-> tks, ret |-> ret, err |-> err]

Idle == Call("idle", DefaultNames, "", <<>>, <<>>, "")

Start == Call("start", DefaultNames, "", <<>>, <<>>, "")

\* The builder API can be called: no generator call is under way, or the call
\* has returned the code.
Generated == gen.pc \in {"idle", "returned"}

\* ------------------------------------------------------------ validator
NoError == "none"

\* Without a #[builder_validate] directive the validator is the generated
\* identity function and there is no error type.
NoValidator == [fn |-> "id", error |-> NoError]

\* The validator directives considered: a function from record to record and no
\* error type, and a function from record to Result with its error type.
ValidatorChoices ==
    {[fn |-> "keep", error |-> NoError], [fn |-> "check", error |-> "BuildError"]}

\* The validator of the documentation accepts one value of the record's first
\* field and rejects every other.
Accepts(rec) == rec[1] = 1

\* The functions a record is passed through: the generated id, a validator
\* that hands the record back, and the documentation's validator.
Validate(fn, rec) ==
    IF fn = "check"
    THEN IF Accepts(rec)
         THEN [variant |-> "Ok", val |-> rec]
         ELSE [variant |-> "Err", val |-> <<>>]
    ELSE [variant |-> "Record", val |-> rec]

\* What the validator function returns, as a type.
Returns(fn) == IF fn = "check" THEN "Result" ELSE "Record"

\* Variant: build returns a Result whenever a validator directive is present.
BuildReturns_ByDirective(v) == IF v.fn # "id" THEN "Result" ELSE "Record"

\* The declared return type of build: Result<record, error> when the directive
\* names an error type, the record otherwise.
BuildReturns(v) == IF v.error # NoError THEN "Result" ELSE "Record"

\* The generated build compiles when its body, the validator's return value,
\* has the declared return type.
TypeChecks(v) == BuildReturns(v) = Returns(v.fn)

\* Variant: the validator is run on the record and then once more.
Invoke_Twice(fn, rec) == <<[fn |-> fn, arg |-> rec], [fn |-> fn, arg |-> rec]>>

\* The validator calls of one build: one, on the assembled record.  Strategy A
\* has no validator and returns the record as assembled.
Invoke(fn, rec) == IF strategy = "B" THEN <<[fn |-> fn, arg |-> rec]>> ELSE <<>>

\* Variant: build wraps the assembled record itself and drops the validator's
\* return value.
BuildResult_Ignore(v, rec) ==
    [variant |-> IF v.error # NoError THEN "Ok" ELSE "Record", val |-> rec]

\* What build returns: the validator's return value.
BuildResult(v, rec) == Validate(v.fn, rec)

\* An operation other than build calls no validator and wraps nothing.
NotBuild == called' = <<>> /\ variant' = "none"

\* ------------------------------------------------------------------ Init
Init ==
    /\ item = NoItem
    /\ gen = Idle
    /\ strategy \in Strategies
    /\ schema \in Schemas
    /\ generics \in GenericsChoices
    /\ fields = partition.req
    /\ opt_fields = partition.opt
    /\ derives \in DeriveChoices
    /\ validator = NoValidator
    /\ status = [b \in Builders |-> "none"]
    /\ ty = [b \in Builders |-> <<>>]
    /\ inner = [b \in Builders |-> EmptyInner]
    /\ opt = [b \in Builders |-> <<>>]
    /\ released = [b \in Builders |-> [k \in 1..MaxFields |-> 0]]
    /\ touched = {}
    /\ panics = {}
    /\ args = [b \in Builders |-> <<>>]
    /\ out = Quiet
    /\ variant = "none"
    /\ called = <<>>

\* ----------------------------------------------------------- constructor
\* Builders constructed independently of each other share nothing, so the pool
\* holds at most MaxNew constructed builders; the others are clones.
New(b) ==
    /\ Generated
    /\ Defined
    /\ b <= MaxNew
    /\ NextFree(b)
    /\ status' = [status EXCEPT ![b] = "live"]
    /\ ty' = [ty EXCEPT ![b] = start_generics]
    /\ inner' = [inner EXCEPT ![b] = NewInner]
    /\ opt' = [opt EXCEPT ![b] = NewOpt]
    /\ args' = [args EXCEPT ![b] = [i \in 1..Len(schema) |-> NoneVal]]
    /\ out' = Result("new", b, 0, <<>>)
    /\ NotBuild
    /\ UNCHANGED <<config, released, touched, panics>>

\* ------------------------------------------------------------ bookkeeping
Cap2(n) == IF n >= 2 THEN 2 ELSE n + 1

Bump(counts, ks) ==
    [k \in 1..MaxFields |-> IF k \in ks THEN Cap2(counts[k]) ELSE counts[k]]

Holds(b, k) == inner[b].f[k] \in Vals

\* One access of raw slot k of builder b, with the slot's marker and whether the
\* slot holds a value at that moment.
Access(op, kind, b, k) ==
    [op |-> op, kind |-> kind, m |-> Marker(b, k), held |-> Holds(b, k)]

\* The accesses worth recording: those of raw storage (strategy B) that meet an
\* Unset marker or a slot that holds no value.
Hazards(op, kind, b, ks) ==
    IF strategy # "B" THEN {}
    ELSE {Access(op, kind, b, k) : k \in {x \in ks : Marker(b, x) = "O" \/ ~Holds(b, x)}}

\* ------------------------------------------------------- required setter
\* Variant: the setter builds the new builder from self's slots only and leaves
\* the given value out.
WriteSlot_Skip(in, k, v) == in

\* Strategy B: ptr::write stores the value without releasing what the slot held.
\* Strategy A: the slot becomes Some(value).
WriteSlot(in, k, v) == [in EXCEPT !.f[k] = v]

\* Variant: the raw-slot setter does not forget self, so the destructor of the
\* source builder runs on the slots that were copied into the new builder.
SetterReleases_NoForget(b, k) ==
    IF strategy = "A"
    THEN IF Holds(b, k) THEN {k} ELSE {}
    ELSE {j \in 1..R : j # k /\ Marker(b, j) = "I"}

\* What becomes of the value the slot held before the setter ran.  In strategy A
\* the setter does not move self's slot k into the new builder, so it is released
\* with the rest of self; in strategy B self is forgotten and nothing is released.
SetterReleases(b, k) ==
    IF strategy = "A" /\ Holds(b, k) THEN {k} ELSE {}

\* A write that does not meet an Unset, empty slot.
Overwrites(b, k) ==
    IF Marker(b, k) = "I" \/ Holds(b, k) THEN {Access("set", "write", b, k)} ELSE {}

SetRequired(b, k, v) ==
    /\ Defined
    /\ Live(b)
    /\ k \in 1..R
    /\ Matches(set_generics(k), ty[b])
    /\ IF strategy = "B" /\ inner[b].tag # "Inner"
       THEN \* unreachable!(): the panic unwinds and drops self, whose inner is Empty
            /\ panics' = panics \cup {"set"}
            /\ status' = [status EXCEPT ![b] = "dropped"]
            /\ UNCHANGED <<ty, inner, touched, released, args>>
       ELSE /\ inner' = [inner EXCEPT ![b] = WriteSlot(inner[b], k, v)]
            /\ args' = [args EXCEPT ![b][fields[k]] = v]
            /\ ty' = [ty EXCEPT ![b] = Instantiate(after_set_generics(k), ty[b])]
            /\ touched' = touched \cup Overwrites(b, k)
            /\ released' = [released EXCEPT ![b] = Bump(@, SetterReleases(b, k))]
            /\ UNCHANGED <<status, panics>>
    /\ out' = Quiet
    /\ NotBuild
    /\ UNCHANGED <<config, opt>>

\* ------------------------------------------------------- optional setter
\* Variant: the new builder is made of the given value alone, the other
\* optional fields start empty again.
SetOpt_Alone(o, j, v) == [i \in 1..Len(o) |-> IF i = j THEN v ELSE NoneVal]

\* Strategy B assigns Some(value) to the one field of self; strategy A builds a
\* new builder from Some(value) and every other field of self.
SetOpt(o, j, v) == [o EXCEPT ![j] = v]

\* self.field = Some(value): the builder keeps its type.
SetOptional(b, j, v) ==
    /\ Defined
    /\ Live(b)
    /\ j \in 1..P
    /\ Matches(ext_ty_generics, ty[b])
    /\ opt' = [opt EXCEPT ![b] = SetOpt(opt[b], j, v)]
    /\ args' = [args EXCEPT ![b][opt_fields[j]] = v]
    /\ ty' = [ty EXCEPT ![b] = Instantiate(ext_ty_generics, ty[b])]
    /\ out' = Quiet
    /\ NotBuild
    /\ UNCHANGED <<config, status, inner, released, touched, panics>>

\* ---------------------------------------------------- MaybeInitialized
\* Variant: replicate fabricates a placeholder whatever the marker.
replicate_Fabricate(m, t) == [val |-> Uninit, reads |-> FALSE]

\* I::replicate clones the value behind the reference; O::replicate returns
\* mem::uninitialized() and does not look at the reference.
replicate(m, t) ==
    IF m = "I" THEN [val |-> t, reads |-> TRUE] ELSE [val |-> Uninit, reads |-> FALSE]

\* I::destroy lets the value go out of scope; O::destroy forgets it.
destroy(m) == IF m = "I" THEN "drop" ELSE "forget"

\* Variant: expose shows the slot whatever the marker, as a derived Debug would.
expose_Direct(m, t) == [text |-> t, reads |-> TRUE]

\* I::expose is the value's own Debug; O::expose is the constant Uninitialized.
expose(m, t) ==
    IF m = "I" THEN [text |-> t, reads |-> TRUE] ELSE [text |-> Placeholder, reads |-> FALSE]

\* --------------------------------------------------------------- traits
\* Strategy A puts #[derive(Clone, Debug)] on the builder struct, which bounds
\* every type parameter of the builder by the derived trait; the marker types
\* O and I of strategy A implement neither.  Strategy B writes the impls by
\* hand and bounds the markers by MaybeInitialized only.
ParamHas(p, trait) ==
    IF p \in {"O", "I"} THEN strategy = "B" ELSE TRUE

HasImpl(b, trait) ==
    /\ trait \in derives
    /\ \A j \in 1..Len(ty[b]) : ParamHas(ty[b][j], trait)

\* ---------------------------------------------------------------- clone
\* The required positions whose value the user's Clone is run on.
CloneCalls(b) ==
    IF strategy = "B"
    THEN {k \in 1..R : replicate(Marker(b, k), inner[b].f[k]).reads}
    ELSE {k \in 1..R : Holds(b, k)}

ClonedInner(b) ==
    IF strategy = "B"
    THEN [tag |-> "Inner", f |-> [k \in 1..R |-> replicate(Marker(b, k), inner[b].f[k]).val]]
    ELSE inner[b]

\* The user's Clone can panic at position q only where it is run: on a required
\* field that is cloned, or on an optional field that holds a value.
CanFailAt(b, q) ==
    \/ q \in CloneCalls(b)
    \/ q > R /\ q <= R + P /\ opt[b][q - R] # NoneVal

\* The required positions already evaluated when the clone at position q panics;
\* unwinding releases each of them as a plain value.
EvaluatedBefore(q) == {k \in 1..R : k < q}

\* Those of them that are fabricated placeholders.
PlaceholdersBefore(b, q) ==
    {k \in EvaluatedBefore(q) : ClonedInner(b).f[k] = Uninit}

Clone(b, c) ==
    /\ Defined
    /\ Live(b)
    /\ HasImpl(b, "Clone")
    /\ NextFree(c)
    /\ IF strategy = "B" /\ inner[b].tag # "Inner"
       THEN /\ panics' = panics \cup {"clone"}
            /\ out' = Quiet
            /\ UNCHANGED <<status, ty, inner, opt, touched, args>>
       ELSE /\ status' = [status EXCEPT ![c] = "live"]
            /\ args' = [args EXCEPT ![c] = args[b]]
            /\ ty' = [ty EXCEPT ![c] = ty[b]]
            /\ inner' = [inner EXCEPT ![c] = ClonedInner(b)]
            /\ opt' = [opt EXCEPT ![c] = opt[b]]
            /\ touched' = touched \cup Hazards("clone", "dup", b, CloneCalls(b))
            /\ out' = Result("clone", c, b, <<>>)
            /\ UNCHANGED panics
    /\ NotBuild
    /\ UNCHANGED <<config, released>>

\* The user's Clone panics while field q is cloned: no builder is returned.
CloneFails(b, q) ==
    /\ Defined
    /\ Live(b)
    /\ HasImpl(b, "Clone")
    /\ strategy = "A" \/ inner[b].tag = "Inner"
    /\ CanFailAt(b, q)
    /\ touched' = touched
           \cup Hazards("clone", "dup", b, CloneCalls(b) \cap EvaluatedBefore(q))
           \cup (IF strategy = "B"
                 THEN {[op |-> "clone", kind |-> "release", m |-> Marker(b, k), held |-> FALSE] :
                          k \in PlaceholdersBefore(b, q)}
                 ELSE {})
    /\ out' = Quiet
    /\ NotBuild
    /\ UNCHANGED <<config, status, ty, inner, opt, released, panics, args>>

\* -------------------------------------------------------------- inspect
ExposeCalls(b) ==
    IF strategy = "B"
    THEN {k \in 1..R : expose(Marker(b, k), inner[b].f[k]).reads}
    ELSE 1..R

\* The fields of the debug_struct, required fields first.
Display(b) ==
    [req |-> IF strategy = "B"
             THEN [k \in 1..R |-> expose(Marker(b, k), inner[b].f[k]).text]
             ELSE inner[b].f,
     opt |-> opt[b]]

Inspect(b) ==
    /\ Defined
    /\ Live(b)
    /\ HasImpl(b, "Debug")
    /\ IF strategy = "B" /\ inner[b].tag # "Inner"
       THEN /\ panics' = panics \cup {"inspect"}
            /\ out' = Quiet
            /\ UNCHANGED touched
       ELSE /\ touched' = touched \cup Hazards("inspect", "read", b, ExposeCalls(b))
            /\ out' = Result("inspect", b, 0, Display(b))
            /\ UNCHANGED panics
    /\ NotBuild
    /\ UNCHANGED <<config, status, ty, inner, opt, released, args>>

\* ----------------------------------------------------------------- drop
RECURSIVE DestroyFrom(_, _, _)
\* The destroy calls of Drop::drop, in field order, from position k on: the set
\* of positions whose content is released.  When the release at position p
\* panics, unwinding drops the bindings of the later positions as plain values.
DestroyFrom(k, ms, p) ==
    IF k > Len(ms) THEN {}
    ELSE IF destroy(ms[k]) = "drop"
         THEN IF k = p
              THEN k..Len(ms)
              ELSE {k} \cup DestroyFrom(k + 1, ms, p)
         ELSE DestroyFrom(k + 1, ms, p)

\* The positions a drop of builder b releases.  Strategy A has no destructor of
\* its own: the drop glue releases every slot that holds a value.
DropReleases(b, p) ==
    IF strategy = "B"
    THEN IF inner[b].tag = "Inner" THEN DestroyFrom(1, Markers(b), p) ELSE {}
    ELSE {k \in 1..R : Holds(b, k)}

\* The user's destructor can panic at position p only where it is run.  (In
\* strategy A the drop glue goes on to the remaining fields after a panic, so a
\* panicking destructor releases what a quiet one does.)
CanPanicAt(b, p) ==
    /\ strategy = "B"
    /\ inner[b].tag = "Inner"
    /\ p \in 1..R
    /\ destroy(Marker(b, p)) = "drop"

\* The builder goes out of scope; p is the position whose release panics, 0 when
\* none does.
DropStep(b, p) ==
    /\ Defined
    /\ Live(b)
    /\ touched' = touched \cup Hazards("drop", "release", b, DropReleases(b, p))
    /\ released' = [released EXCEPT ![b] = Bump(@, DropReleases(b, p))]
    /\ status' = [status EXCEPT ![b] = "dropped"]
    /\ inner' = [inner EXCEPT ![b] = EmptyInner]
    /\ ty' = [ty EXCEPT ![b] = <<>>]
    /\ opt' = [opt EXCEPT ![b] = <<>>]
    /\ args' = [args EXCEPT ![b] = <<>>]
    /\ out' = IF p = 0 THEN Quiet ELSE Result("droppanic", b, p, <<>>)
    /\ NotBuild
    /\ UNCHANGED <<config, panics>>

Drop(b) == DropStep(b, 0)

DropPanics(b, p) == CanPanicAt(b, p) /\ DropStep(b, p)

\* ---------------------------------------------------------------- build
PosIn(seq, x) == CHOOSE k \in 1..Len(seq) : seq[k] = x

\* Variant: the record's required fields are paired with the slots in reverse.
Assemble_Reversed(f, o) ==
    [i \in 1..Len(schema) |->
        IF is_option(schema[i])
        THEN o[PosIn(opt_fields, i)]
        ELSE f[Len(f) + 1 - PosIn(fields, i)]]

\* Name { required fields from the slots, optional fields from take() }.
Assemble(f, o) ==
    [i \in 1..Len(schema) |->
        IF is_option(schema[i]) THEN o[PosIn(opt_fields, i)] ELSE f[PosIn(fields, i)]]

\* Variant: strategy A unwraps the optional slots as well.
UnwrapFails_OptionalToo(b) ==
    /\ strategy = "A"
    /\ \/ \E k \in 1..R : inner[b].f[k] = NoneVal
       \/ \E j \in 1..P : opt[b][j] = NoneVal

\* Strategy A unwraps every required slot.
UnwrapFails(b) == strategy = "A" /\ \E k \in 1..R : inner[b].f[k] = NoneVal

Build(b) ==
    /\ Defined
    /\ Live(b)
    /\ Matches(end_generics, ty[b])
    /\ TypeChecks(validator)
    /\ IF strategy = "B" /\ inner[b].tag # "Inner"
       THEN /\ panics' = panics \cup {"build"}
            /\ out' = Quiet
            /\ NotBuild
            /\ UNCHANGED touched
       ELSE IF UnwrapFails(b)
            THEN /\ panics' = panics \cup {"unwrap"}
                 /\ out' = Quiet
                 /\ NotBuild
                 /\ UNCHANGED touched
            ELSE /\ touched' = touched \cup Hazards("build", "read", b, 1..R)
                 /\ called' = Invoke(validator.fn, Assemble(inner[b].f, opt[b]))
                 /\ variant' = BuildResult(validator, Assemble(inner[b].f, opt[b])).variant
                 /\ out' = Result("build", b, 0,
                                  BuildResult(validator, Assemble(inner[b].f, opt[b])).val)
                 /\ UNCHANGED panics
    \* self goes out of scope with its inner Empty: its destructor releases nothing
    /\ status' = [status EXCEPT ![b] = "built"]
    /\ inner' = [inner EXCEPT ![b] = EmptyInner]
    /\ ty' = [ty EXCEPT ![b] = <<>>]
    /\ opt' = [opt EXCEPT ![b] = <<>>]
    /\ args' = [args EXCEPT ![b] = <<>>]
    /\ UNCHANGED <<config, released>>

\* ----------------------------------------------------------------- Next
Next ==
    \/ \E b \in Builders : New(b)
    \/ \E b \in Builders, k \in 1..MaxFields, v \in Vals : SetRequired(b, k, v)
    \/ \E b \in Builders, j \in 1..MaxFields, v \in Vals : SetOptional(b, j, v)
    \/ \E b \in Builders, c \in Builders : Clone(b, c)
    \/ \E b \in Builders, q \in 1..(2 * MaxFields) : CloneFails(b, q)
    \/ \E b \in Builders : Inspect(b)
    \/ \E b \in Builders : Drop(b)
    \/ \E b \in Builders, p \in 1..MaxFields : DropPanics(b, p)
    \/ \E b \in Builders : Build(b)

Spec == Init /\ [][Next]_vars

\* The raw-slot generator applied to a record with or without a validator
\* directive; strategy A knows no such directive.  The record's own type
\* parameters and the choice of capabilities play no part in build: the record
\* has no type parameter here and the builder every capability.
InitValidate ==
    /\ item = NoItem
    /\ gen = Idle
    /\ strategy = "B"
    /\ schema \in Schemas
    /\ generics = <<>>
    /\ fields = partition.req
    /\ opt_fields = partition.opt
    /\ derives = {"Clone", "Debug"}
    /\ validator \in {NoValidator} \cup ValidatorChoices
    /\ status = [b \in Builders |-> "none"]
    /\ ty = [b \in Builders |-> <<>>]
    /\ inner = [b \in Builders |-> EmptyInner]
    /\ opt = [b \in Builders |-> <<>>]
    /\ released = [b \in Builders |-> [k \in 1..MaxFields |-> 0]]
    /\ touched = {}
    /\ panics = {}
    /\ args = [b \in Builders |-> <<>>]
    /\ out = Quiet
    /\ variant = "none"
    /\ called = <<>>

SpecValidate == InitValidate /\ [][Next]_vars

\* ------------------------------------------------- create_builder, by stage
pool == <<status, ty, inner, opt, released, touched, panics, args, out, variant, called>>

\* The records considered as derive input have GenFields fields, whose types
\* may also be written with a qualified path.
GenFieldTypes == FieldTypes \cup {"std::option::Option"}

GenSchemas == [1..GenFields -> GenFieldTypes]

\* The attributes the raw-slot generator is tried on: well-formed ones, ones
\* with an unknown key, a literal that is no string, a validator directive
\* without validator, and a path that does not parse.
DirectivesB ==
    {List("builder_names", <<KeyValue("builder", Str("X"))>>),
     List("builder_names", <<KeyValue("bogus", Str("X"))>>),
     List("builder_names", <<KeyValue("new", NotStr("5"))>>),
     List("builder_names", <<KeyValue("new", Str("create")), KeyValue("build", Str("finish"))>>),
     NameValue("builder_prefix", Str("set_")),
     NameValue("builder_prefix", Str("with_")),
     NameValue("builder_prefix", NotStr("5")),
     List("builder_validate",
          <<KeyValue("validator", Str("check")), KeyValue("error", Str("BuildError"))>>),
     List("builder_validate", <<KeyValue("validator", Str("keep"))>>),
     List("builder_validate", <<KeyValue("error", Str("BuildError"))>>),
     List("builder_validate", <<KeyValue("validator", Str(MalformedPath))>>),
     List("builder_derive", <<Word("Clone"), Word("Debug")>>),
     List("builder_derive", <<Word("Debug")>>)}

\* The attributes the nullable-slot generator is tried on.
DirectivesA ==
    {NameValue("builder_name", Str("X")),
     NameValue("builder_name", Str("Y")),
     NameValue("builder_name", NotStr("5")),
     List("builder_rename", <<KeyValue("new", Str("create")), KeyValue("build", Str("finish"))>>),
     List("builder_rename", <<KeyValue("new", Str("make"))>>),
     NameValue("builder_prefix", Str("set_")),
     NameValue("builder_prefix", Str("with_"))}

AttrLists(ds) == UNION {[1..n -> ds] : n \in 0..MaxAttrs}

\* The attributes a field may carry: none, a setter prefix, two setter prefixes.
FieldAttrChoices ==
    {<<>>,
     <<NameValue("builder_prefix", Str("with_"))>>,
     <<NameValue("builder_prefix", Str("with_")), NameValue("builder_prefix", Str("set_"))>>}

Items(ds) ==
    {Item(body, attrs, fattrs) :
        body \in {"Struct", "Enum"},
        attrs \in AttrLists(ds),
        fattrs \in [1..GenFields -> FieldAttrChoices]}

\* Body::Struct(s) covers the struct with named fields and the tuple struct,
\* whose fields have no ident.
IsStruct(body) == body \in {"Struct", "Tuple"}

NonEmpty(msg) == msg # ""

FirstPanic(msgs) ==
    IF SelectSeq(msgs, NonEmpty) = <<>> THEN "" ELSE SelectSeq(msgs, NonEmpty)[1]

\* Strategy B reads the directives of a struct in this order: names, prefix,
\* derives, validator; anything but a struct is refused before.
ReadB(it) ==
    LET n == get_builder_names(it.attrs)
        p == get_setter_prefix(it.attrs, "")
        v == get_validator(it.attrs, NoValidator)
    IN  [panic |-> IF ~IsStruct(it.body)
                   THEN "Only structs supported."
                   ELSE FirstPanic(<<n.panic, p.panic, v.panic>>),
         names |-> n.names,
         prefix |-> p.prefix,
         derives |-> get_derives(it.attrs),
         validator |-> v.validator]

\* Strategy A looks its directives up, then refuses anything but a struct.
ReadA(it) ==
    [panic |-> IF ~IsStruct(it.body) THEN "Only structs supported." ELSE "",
     names |-> names_A(it.attrs),
     prefix |-> prefix_A(it.attrs, ""),
     derives |-> {"Clone", "Debug"},
     validator |-> NoValidator]

\* Variant: a panic hands back the tokens gathered so far.
Unwound_Flush(tks) == tks

\* A panic unwinds create_builder: tks is a local, and nothing is returned.
Unwound(tks) == <<>>

ReadDirectives ==
    /\ gen.pc = "start"
    /\ LET r == IF strategy = "B" THEN ReadB(item) ELSE ReadA(item)
       IN  IF r.panic # ""
           THEN /\ gen' = [gen EXCEPT !.pc = "panicked", !.err = r.panic,
                                      !.ret = Unwound(gen.tks)]
                /\ UNCHANGED <<derives, validator>>
           ELSE /\ gen' = [gen EXCEPT !.pc = "read", !.names = r.names, !.prefix = r.prefix]
                /\ derives' = r.derives
                /\ validator' = r.validator
    /\ UNCHANGED <<item, strategy, schema, generics, fields, opt_fields, pool>>

Capability(trait) == IF trait \in derives THEN <<Chunk("impl", trait)>> ELSE <<>>

\* The builder type, its constructor, its impls and its build method.
BaseChunks ==
    <<Chunk("struct", gen.names.builder), Chunk("fn", gen.names.new)>>
    \o (IF strategy = "B" THEN <<Chunk("impl", "Drop")>> ELSE <<>>)
    \o Capability("Clone")
    \o Capability("Debug")
    \o <<Chunk("fn", gen.names.build)>>

EmitBase ==
    /\ gen.pc = "read"
    /\ fields' = partition.req
    /\ opt_fields' = partition.opt
    /\ gen' = [gen EXCEPT !.pc = "base", !.tks = BaseChunks]
    /\ UNCHANGED <<item, strategy, schema, generics, derives, validator, pool>>

\* The setters are generated for the optional fields first, then for the
\* required ones, each list in declaration order.
SetterOrder == opt_fields \o fields

\* Variant: every field goes by the same name.
raw_name_Same(i) == "f"

\* The name made up for a field without ident: the loop counter of the setter
\* loop the field is in, which counts the optional fields and the required
\* fields each from 0.
Synthesized(i) ==
    ToString(PosIn(IF is_option(schema[i]) THEN opt_fields ELSE fields, i) - 1)

\* The field's ident, or the synthesized name where it has none.
raw_name(i) == IF item.body = "Tuple" THEN Synthesized(i) ELSE "f" \o ToString(i)

\* Variant: every setter takes the record's prefix; a field's own is not read.
FieldPrefix_Record(i) == [panic |-> "", prefix |-> gen.prefix]

FieldPrefix(i) ==
    IF strategy = "B"
    THEN get_setter_prefix(item.fattrs[i], gen.prefix)
    ELSE [panic |-> "", prefix |-> prefix_A(item.fattrs[i], gen.prefix)]

SetterChunk(i) == Chunk("setter", FieldPrefix(i).prefix \o raw_name(i))

\* The first position of SetterOrder whose prefix lookup panics, 0 if none does.
FirstBad ==
    LET bad == {n \in 1..Len(SetterOrder) : FieldPrefix(SetterOrder[n]).panic # ""}
    IN  IF bad = {} THEN 0 ELSE CHOOSE n \in bad : \A m \in bad : n <= m

SettersBefore(n) == [m \in 1..(n - 1) |-> SetterChunk(SetterOrder[m])]

EmitSetters ==
    /\ gen.pc = "base"
    /\ IF FirstBad = 0
       THEN gen' = [gen EXCEPT !.pc = "setters",
                               !.tks = gen.tks \o SettersBefore(Len(SetterOrder) + 1)]
       ELSE gen' = [gen EXCEPT !.pc = "panicked",
                               !.err = FieldPrefix(SetterOrder[FirstBad]).panic,
                               !.tks = gen.tks \o SettersBefore(FirstBad),
                               !.ret = Unwound(gen.tks \o SettersBefore(FirstBad))]
    /\ UNCHANGED <<item, strategy, schema, generics, fields, opt_fields, derives, validator, pool>>

\* tks.parse().unwrap(): the whole token stream is returned at once.
Return ==
    /\ gen.pc = "setters"
    /\ gen' = [gen EXCEPT !.pc = "returned", !.ret = gen.tks]
    /\ UNCHANGED <<item, strategy, schema, generics, fields, opt_fields, derives, validator, pool>>

InitGen ==
    /\ strategy \in Strategies
    /\ item \in Items(IF strategy = "B" THEN DirectivesB ELSE DirectivesA)
    /\ gen = Start
    /\ schema \in GenSchemas
    /\ generics = <<>>
    /\ fields = <<>>
    /\ opt_fields = <<>>
    /\ derives = {}
    /\ validator = NoValidator
    /\ status = [b \in Builders |-> "none"]
    /\ ty = [b \in Builders |-> <<>>]
    /\ inner = [b \in Builders |-> EmptyInner]
    /\ opt = [b \in Builders |-> <<>>]
    /\ released = [b \in Builders |-> [k \in 1..MaxFields |-> 0]]
    /\ touched = {}
    /\ panics = {}
    /\ args = [b \in Builders |-> <<>>]
    /\ out = Quiet
    /\ variant = "none"
    /\ called = <<>>

NextGen ==
    \/ ReadDirectives
    \/ EmitBase
    \/ EmitSetters
    \/ Return

SpecGen == InitGen /\ [][NextGen]_vars

\* ------------------------------------------- generation, then use of the API
\* Records that differ in their naming and prefix directives only.  The raw-slot
\* generator is asked for both capabilities throughout.
RenameAttrs ==
    IF strategy = "B"
    THEN {<<List("builder_derive", <<Word("Clone"), Word("Debug")>>)>>,
          <<List("builder_names", <<KeyValue("new", Str("create")), KeyValue("build", Str("finish"))>>),
            List("builder_derive", <<Word("Clone"), Word("Debug")>>)>>,
          <<List("builder_derive", <<Word("Clone"), Word("Debug")>>),
            NameValue("builder_prefix", Str("set_"))>>}
    ELSE {<<>>,
          <<NameValue("builder_name", Str("X")),
            List("builder_rename", <<KeyValue("new", Str("create")), KeyValue("build", Str("finish"))>>)>>,
          <<NameValue("builder_prefix", Str("set_"))>>}

RenameFieldAttrs ==
    {[i \in 1..GenFields |-> <<>>],
     [i \in 1..GenFields |->
         IF i = 1 THEN <<NameValue("builder_prefix", Str("with_"))>> ELSE <<>>]}

InitRename ==
    /\ strategy \in Strategies
    /\ item \in {Item("Struct", attrs, fattrs) : attrs \in RenameAttrs, fattrs \in RenameFieldAttrs}
    /\ gen = Start
    /\ schema \in GenSchemas
    /\ generics = <<>>
    /\ fields = <<>>
    /\ opt_fields = <<>>
    /\ derives = {}
    /\ validator = NoValidator
    /\ status = [b \in Builders |-> "none"]
    /\ ty = [b \in Builders |-> <<>>]
    /\ inner = [b \in Builders |-> EmptyInner]
    /\ opt = [b \in Builders |-> <<>>]
    /\ released = [b \in Builders |-> [k \in 1..MaxFields |-> 0]]
    /\ touched = {}
    /\ panics = {}
    /\ args = [b \in Builders |-> <<>>]
    /\ out = Quiet
    /\ variant = "none"
    /\ called = <<>>

\* The generated API is used once the generator has returned it.
NextRename == NextGen \/ Next

SpecRename == InitRename /\ [][NextRename]_vars

\* ------------------------------------------------ records with unnamed fields
\* Tuple structs of 1..MaxFields fields, with or without a record prefix, whose
\* first field may carry a prefix of its own.
InitTuple ==
    /\ strategy \in Strategies
    /\ schema \in UNION {[1..n -> GenFieldTypes] : n \in 1..MaxFields}
    /\ item \in {Item("Tuple", attrs, fattrs) :
                    attrs \in {<<>>,
                               <<NameValue("builder_prefix", Str("set_"))>>,
                               <<NameValue("builder_prefix", Str("with_"))>>},
                    fattrs \in {[i \in 1..Len(schema) |-> <<>>],
                                [i \in 1..Len(schema) |->
                                    IF i = 1
                                    THEN <<NameValue("builder_prefix", Str("with_"))>>
                                    ELSE <<>>]}}
    /\ gen = Start
    /\ generics = <<>>
    /\ fields = <<>>
    /\ opt_fields = <<>>
    /\ derives = {}
    /\ validator = NoValidator
    /\ status = [b \in Builders |-> "none"]
    /\ ty = [b \in Builders |-> <<>>]
    /\ inner = [b \in Builders |-> EmptyInner]
    /\ opt = [b \in Builders |-> <<>>]
    /\ released = [b \in Builders |-> [k \in 1..MaxFields |-> 0]]
    /\ touched = {}
    /\ panics = {}
    /\ args = [b \in Builders |-> <<>>]
    /\ out = Quiet
    /\ variant = "none"
    /\ called = <<>>

SpecTuple == InitTuple /\ [][NextGen]_vars

\* ------------------------------------------ the required setter, by statement
\* The handles of the pool are followed through a required setter statement by
\* statement.  A builder the caller holds is "live"; `self` inside a running
\* setter is "self"; the builder the setter is about to return is "local".
\* Variant: the setter borrows its receiver and the caller keeps the builder.
by_value_Borrowed == "live"

\* The receiver is taken by value (mut self / self): the caller's builder is
\* moved into the call.
by_value == "self"

InSetter(b) == status[b] = "self"

Local(c) == status[c] = "local"

\* The program is single-threaded: the caller goes on when the setter it
\* called has returned.
Caller == \A c \in Builders : ~InSetter(c) /\ ~Local(c)

\* fn name(mut self, value): self and the value are moved into the call; the
\* raw-slot setter writes the value into self's slot with ptr::write.
Enter(b, k, v) ==
    /\ Defined
    /\ Live(b)
    /\ k \in 1..R
    /\ Matches(set_generics(k), ty[b])
    /\ Caller
    /\ \E c \in Builders : Free(c)
    /\ IF strategy = "B" /\ inner[b].tag # "Inner"
       THEN \* unreachable!(): the panic unwinds and drops self, whose inner is Empty
            /\ panics' = panics \cup {"set"}
            /\ status' = [status EXCEPT ![b] = "dropped"]
            /\ out' = Quiet
            /\ UNCHANGED <<inner, args, touched>>
       ELSE /\ status' = [status EXCEPT ![b] = by_value]
            /\ inner' = [inner EXCEPT ![b] =
                             IF strategy = "B" THEN WriteSlot(inner[b], k, v) ELSE @]
            /\ args' = [args EXCEPT ![b][fields[k]] = v]
            /\ touched' = touched \cup (IF strategy = "B" THEN Overwrites(b, k) ELSE {})
            /\ out' = Result("enter", b, k, <<v>>)
            /\ UNCHANGED panics
    /\ NotBuild
    /\ UNCHANGED <<config, ty, opt, released>>

\* Strategy B: let out = ptr::read(&self): out is a bit copy of self, typed as
\* the builder with marker k Set.
Transplant(b, c) ==
    /\ strategy = "B"
    /\ InSetter(b)
    /\ out.op = "enter" /\ out.b = b
    /\ NextFree(c)
    /\ status' = [status EXCEPT ![c] = "local"]
    /\ ty' = [ty EXCEPT ![c] = Instantiate(after_set_generics(out.from), ty[b])]
    /\ inner' = [inner EXCEPT ![c] = inner[b]]
    /\ opt' = [opt EXCEPT ![c] = opt[b]]
    /\ args' = [args EXCEPT ![c] = args[b]]
    /\ out' = Result("read", c, b, <<>>)
    /\ NotBuild
    /\ UNCHANGED <<config, released, touched, panics>>

\* Strategy B: mem::forget(self): self is gone and its destructor does not run.
Forget(b) ==
    /\ strategy = "B"
    /\ InSetter(b)
    /\ out.op = "read" /\ out.from = b
    /\ status' = [status EXCEPT ![b] = "none"]
    /\ ty' = [ty EXCEPT ![b] = <<>>]
    /\ inner' = [inner EXCEPT ![b] = EmptyInner]
    /\ opt' = [opt EXCEPT ![b] = <<>>]
    /\ args' = [args EXCEPT ![b] = <<>>]
    /\ out' = Result("forget", out.b, b, <<>>)
    /\ NotBuild
    /\ UNCHANGED <<config, released, touched, panics>>

\* Strategy A: Builder { slot k: Some(value), the other fields moved out of
\* self }; what is left of self, its slot k, is released.
Moved(b, c) ==
    /\ strategy = "A"
    /\ InSetter(b)
    /\ out.op = "enter" /\ out.b = b
    /\ NextFree(c)
    /\ status' = [status EXCEPT ![c] = "local", ![b] = "none"]
    /\ ty' = [ty EXCEPT ![c] = Instantiate(after_set_generics(out.from), ty[b]), ![b] = <<>>]
    /\ inner' = [inner EXCEPT ![c] = WriteSlot(inner[b], out.from, out.val[1]),
                              ![b] = EmptyInner]
    /\ opt' = [opt EXCEPT ![c] = opt[b], ![b] = <<>>]
    /\ args' = [args EXCEPT ![c] = args[b], ![b] = <<>>]
    /\ released' = [released EXCEPT ![b] = Bump(@, SetterReleases(b, out.from))]
    /\ out' = Result("moved", c, b, <<>>)
    /\ NotBuild
    /\ UNCHANGED <<config, touched, panics>>

\* The setter returns out to the caller.
SetterReturn(c) ==
    /\ Local(c)
    /\ out.op \in {"forget", "moved"} /\ out.b = c
    /\ status' = [status EXCEPT ![c] = "live"]
    /\ out' = Quiet
    /\ NotBuild
    /\ UNCHANGED <<config, ty, inner, opt, released, touched, panics, args>>

InitMove ==
    /\ item = NoItem
    /\ gen = Idle
    /\ strategy \in Strategies
    /\ schema \in Schemas
    /\ generics = <<>>
    /\ fields = partition.req
    /\ opt_fields = partition.opt
    /\ derives = {"Clone", "Debug"}
    /\ validator = NoValidator
    /\ status = [b \in Builders |-> "none"]
    /\ ty = [b \in Builders |-> <<>>]
    /\ inner = [b \in Builders |-> EmptyInner]
    /\ opt = [b \in Builders |-> <<>>]
    /\ released = [b \in Builders |-> [k \in 1..MaxFields |-> 0]]
    /\ touched = {}
    /\ panics = {}
    /\ args = [b \in Builders |-> <<>>]
    /\ out = Quiet
    /\ variant = "none"
    /\ called = <<>>

NextMove ==
    \/ Caller /\ \E b \in Builders : New(b)
    \/ \E b \in Builders, k \in 1..MaxFields, v \in Vals : Enter(b, k, v)
    \/ \E b \in Builders, c \in Builders : Transplant(b, c)
    \/ \E b \in Builders : Forget(b)
    \/ \E b \in Builders, c \in Builders : Moved(b, c)
    \/ \E c \in Builders : SetterReturn(c)
    \/ Caller /\ \E b \in Builders, j \in 1..MaxFields, v \in Vals : SetOptional(b, j, v)
    \/ Caller /\ \E b \in Builders, c \in Builders : Clone(b, c)
    \/ Caller /\ \E b \in Builders : Inspect(b)
    \/ Caller /\ \E b \in Builders : Drop(b)
    \/ Caller /\ \E b \in Builders : Build(b)

SpecMove == InitMove /\ [][NextMove]_vars

\* ---------------------------------------- the destructor, by statement
\* Variant: the destructor reads the fields and leaves the discriminant as it is.
replace_Keep(in) == [prior |-> in, now |-> in]

\* mem::replace(&mut self.inner, Empty): the discriminant becomes Empty and what
\* it was before is handed to the caller.
replace(in) == [prior |-> in, now |-> EmptyInner]

Dropping(b) == status[b] = "dropping"

\* No destructor is running: the caller of the API goes on.
Calm == \A c \in Builders : ~Dropping(c)

\* let inner = mem::replace(..): the first statement of Drop::drop.  The frame
\* keeps what it took out and the position of the next field to handle.
DropSwap(b) ==
    /\ strategy = "B"
    /\ Defined
    /\ Calm
    /\ Live(b)
    /\ status' = [status EXCEPT ![b] = "dropping"]
    /\ inner' = [inner EXCEPT ![b] = replace(inner[b]).now]
    /\ out' = Result("swap", b, 1, replace(inner[b]).prior)
    /\ NotBuild
    /\ UNCHANGED <<config, ty, opt, released, touched, panics, args>>

\* if let Inner{..} = inner: the next field goes through its marker's destroy.
DropField(b) ==
    /\ Dropping(b)
    /\ out.op = "swap" /\ out.b = b
    /\ out.val.tag = "Inner"
    /\ out.from <= R
    /\ released' = [released EXCEPT ![b] =
                        Bump(@, IF destroy(Marker(b, out.from)) = "drop" THEN {out.from} ELSE {})]
    /\ out' = Result("swap", b, out.from + 1, out.val)
    /\ NotBuild
    /\ UNCHANGED <<config, status, ty, inner, opt, touched, panics, args>>

\* The destructor returns; the optional fields are released by the drop glue.
DropEnd(b) ==
    /\ Dropping(b)
    /\ out.op = "swap" /\ out.b = b
    /\ out.val.tag = "Inner" => out.from > R
    /\ status' = [status EXCEPT ![b] = "dropped"]
    /\ ty' = [ty EXCEPT ![b] = <<>>]
    /\ opt' = [opt EXCEPT ![b] = <<>>]
    /\ args' = [args EXCEPT ![b] = <<>>]
    /\ out' = Quiet
    /\ NotBuild
    /\ UNCHANGED <<config, inner, released, touched, panics>>

\* Drop::drop runs once more, from its first to its last statement, on a
\* builder whose destructor is running or has run, or that build has emptied.
DropAgain(b) ==
    /\ strategy = "B"
    /\ status[b] \in {"dropping", "dropped", "built"}
    /\ inner' = [inner EXCEPT ![b] = replace(inner[b]).now]
    /\ released' = [released EXCEPT ![b] =
                        Bump(@, IF replace(inner[b]).prior.tag = "Inner"
                                THEN DestroyFrom(1, Markers(b), 0)
                                ELSE {})]
    /\ UNCHANGED <<config, status, ty, opt, touched, panics, args, out, variant, called>>

InitDrop ==
    /\ item = NoItem
    /\ gen = Idle
    /\ strategy = "B"
    /\ schema \in Schemas
    /\ generics \in GenericsChoices
    /\ fields = partition.req
    /\ opt_fields = partition.opt
    /\ derives = {"Clone", "Debug"}
    /\ validator = NoValidator
    /\ status = [b \in Builders |-> "none"]
    /\ ty = [b \in Builders |-> <<>>]
    /\ inner = [b \in Builders |-> EmptyInner]
    /\ opt = [b \in Builders |-> <<>>]
    /\ released = [b \in Builders |-> [k \in 1..MaxFields |-> 0]]
    /\ touched = {}
    /\ panics = {}
    /\ args = [b \in Builders |-> <<>>]
    /\ out = Quiet
    /\ variant = "none"
    /\ called = <<>>

NextDrop ==
    \/ Calm /\ \E b \in Builders : New(b)
    \/ Calm /\ \E b \in Builders, k \in 1..MaxFields, v \in Vals : SetRequired(b, k, v)
    \/ Calm /\ \E b \in Builders, j \in 1..MaxFields, v \in Vals : SetOptional(b, j, v)
    \/ Calm /\ \E b \in Builders, c \in Builders : Clone(b, c)
    \/ Calm /\ \E b \in Builders : Build(b)
    \/ \E b \in Builders : DropSwap(b)
    \/ \E b \in Builders : DropField(b)
    \/ \E b \in Builders : DropEnd(b)
    \/ \E b \in Builders : DropAgain(b)

SpecDrop == InitDrop /\ [][NextDrop]_vars

\* ------------------------------------------------------- build, by statement
\* Inside build the receiver is `self`, moved into the call: "building".
Building(b) == status[b] = "building"

\* No build and no destructor is running: the caller of the API goes on.
Outside == \A c \in Builders : ~Building(c) /\ ~Dropping(c)

\* The validator of the documentation takes the record by value; when it
\* returns its error the record goes out of scope inside it, and with the
\* record every required value it holds.  The other validators hand the record
\* back.
RecordReleases(fn, rec) == IF Validate(fn, rec).variant = "Err" THEN 1..R ELSE {}

\* Variant: the destructor handles the fields whatever the discriminant is.
Destructor_Blind(in, ms) == DestroyFrom(1, ms, 0)

\* Drop::drop on storage `in` of a builder with markers ms, no release
\* panicking: the fields are handled only when the discriminant is Inner.
Destructor(in, ms) == IF in.tag = "Inner" THEN DestroyFrom(1, ms, 0) ELSE {}

\* let inner = mem::replace(&mut self.inner, Empty): the first statement of
\* build.  The frame keeps what it took out.
BuildSwap(b) ==
    /\ strategy = "B"
    /\ Defined
    /\ Outside
    /\ Live(b)
    /\ Matches(end_generics, ty[b])
    /\ TypeChecks(validator)
    /\ status' = [status EXCEPT ![b] = "building"]
    /\ inner' = [inner EXCEPT ![b] = replace(inner[b]).now]
    /\ out' = Result("taken", b, 0, replace(inner[b]).prior)
    /\ NotBuild
    /\ UNCHANGED <<config, ty, opt, released, touched, panics, args>>

\* if let Inner{..} = inner { validator(Name { .. }) }: the fields are moved
\* out of the local into the record, the optional fields are taken out of self,
\* and the record is handed to the validator.  A record the validator does not
\* hand back is released inside it.
BuildCall(b) ==
    /\ Building(b)
    /\ out.op = "taken" /\ out.b = b
    /\ IF out.val.tag # "Inner"
       THEN /\ panics' = panics \cup {"build"}
            /\ out' = Result("build", b, 0, <<>>)
            /\ NotBuild
            /\ UNCHANGED <<opt, released, touched>>
       ELSE /\ touched' = touched \cup
                   {[op |-> "build", kind |-> "read", m |-> Marker(b, k),
                     held |-> out.val.f[k] \in Vals] :
                        k \in {x \in 1..R : Marker(b, x) = "O" \/ out.val.f[x] \notin Vals}}
            /\ called' = Invoke(validator.fn, Assemble(out.val.f, opt[b]))
            /\ variant' = BuildResult(validator, Assemble(out.val.f, opt[b])).variant
            /\ out' = Result("build", b, 0,
                             BuildResult(validator, Assemble(out.val.f, opt[b])).val)
            /\ opt' = [opt EXCEPT ![b] = [j \in 1..P |-> NoneVal]]
            /\ released' = [released EXCEPT ![b] =
                                Bump(@, RecordReleases(validator.fn,
                                                       Assemble(out.val.f, opt[b])))]
            /\ UNCHANGED panics
    /\ UNCHANGED <<config, status, ty, inner, args>>

\* Variant: build borrows its receiver and the caller keeps the builder.
Consumed_Kept == "live"

\* build takes its receiver by value (mut self): the caller's builder is gone
\* when build has returned.
Consumed == "built"

\* build returns: self goes out of scope and Drop::drop runs on it.
BuildEnd(b) ==
    /\ Building(b)
    /\ out.op = "build" /\ out.b = b
    /\ released' = [released EXCEPT ![b] =
                        Bump(@, Destructor(replace(inner[b]).prior, Markers(b)))]
    /\ inner' = [inner EXCEPT ![b] = replace(inner[b]).now]
    /\ status' = [status EXCEPT ![b] = Consumed]
    /\ ty' = [ty EXCEPT ![b] = <<>>]
    /\ opt' = [opt EXCEPT ![b] = <<>>]
    /\ args' = [args EXCEPT ![b] = <<>>]
    /\ UNCHANGED <<config, touched, panics, out, variant, called>>

InitBuild ==
    /\ item = NoItem
    /\ gen = Idle
    /\ strategy = "B"
    /\ schema \in Schemas
    /\ generics = <<>>
    /\ fields = partition.req
    /\ opt_fields = partition.opt
    /\ derives = {"Clone", "Debug"}
    /\ validator \in {NoValidator} \cup ValidatorChoices
    /\ status = [b \in Builders |-> "none"]
    /\ ty = [b \in Builders |-> <<>>]
    /\ inner = [b \in Builders |-> EmptyInner]
    /\ opt = [b \in Builders |-> <<>>]
    /\ released = [b \in Builders |-> [k \in 1..MaxFields |-> 0]]
    /\ touched = {}
    /\ panics = {}
    /\ args = [b \in Builders |-> <<>>]
    /\ out = Quiet
    /\ variant = "none"
    /\ called = <<>>

NextBuild ==
    \/ Outside /\ \E b \in Builders : New(b)
    \/ Outside /\ \E b \in Builders, k \in 1..MaxFields, v \in Vals : SetRequired(b, k, v)
    \/ Outside /\ \E b \in Builders, j \in 1..MaxFields, v \in Vals : SetOptional(b, j, v)
    \/ Outside /\ \E b \in Builders, c \in Builders : Clone(b, c)
    \/ Outside /\ \E b \in Builders : Inspect(b)
    \/ Outside /\ \E b \in Builders : BuildSwap(b)
    \/ \E b \in Builders : BuildCall(b)
    \/ \E b \in Builders : BuildEnd(b)
    \/ Outside /\ \E b \in Builders : DropSwap(b)
    \/ \E b \in Builders : DropField(b)
    \/ \E b \in Builders : DropEnd(b)

SpecBuild == InitBuild /\ [][NextBuild]_vars

\* ======================================================================
\* Claims
\* ======================================================================
AllSet(b) == \A k \in 1..R : Marker(b, k) = "I"

AllUnset(b) == \A k \in 1..R : Marker(b, k) = "O"

\* The record of the repository's test: required a, required b, optional c.
TestSchema == schema = <<"Item", "Item", "Option">>

\* C1: in strategy B no operation reads, duplicates or releases a required slot
\* of a builder whose marker is Unset.  (The release of a placeholder that clone
\* fabricated for such a slot is not an access of the slot itself.)
C1_UnsetSlotNeverTouched ==
    strategy = "B" =>
        \A a \in touched :
            a.m = "O" =>
                /\ a.kind \notin {"read", "dup"}
                /\ ~(a.kind = "release" /\ a.op = "drop")

\* C2: a build step is taken only from a builder whose marker is Set for every
\* required field.
C2_BuildOnlyWhenAllSet ==
    [][\A b \in Builders :
          (Live(b) /\ status'[b] = "built") => AllSet(b)]_vars

C2_Witness == out.op = "build" /\ R >= 2

\* C3: a required setter never meets a marker that is already Set or a slot that
\* already holds a value, and is not enabled on a builder whose marker for that
\* field is Set: each required field is written at most once.
C3_RequiredSetOnce ==
    /\ \A a \in touched : a.kind # "write"
    /\ \A b \in Builders, k \in 1..R :
          (Live(b) /\ Marker(b, k) = "I" /\ Defined) =>
              \A v \in Vals : ~ENABLED SetRequired(b, k, v)

C3_Witness ==
    \E b \in Builders : Live(b) /\ R >= 2 /\ AllSet(b) /\ Defined

\* C4: the setter of required field k of builder b stores the given value in
\* slot k and turns marker k from Unset to Set; every other type argument of b
\* (markers and the record's type parameters), every other slot, every optional
\* field and every other builder stay as they were.
C4_RequiredSetterFrame ==
    [][\A b \in Builders, k \in 1..R, v \in Vals :
          SetRequired(b, k, v) =>
              /\ Marker(b, k) = "O"
              /\ ty'[b][k] = "I"
              /\ inner'[b].f[k] = v
              /\ \A j \in 1..Len(ty[b]) : j # k => ty'[b][j] = ty[b][j]
              /\ Len(ty'[b]) = Len(ty[b])
              /\ SubSeq(ty'[b], R + 1, Len(ty'[b])) = generics
              /\ \A j \in 1..R : j # k => inner'[b].f[j] = inner[b].f[j]
              /\ inner'[b].tag = inner[b].tag
              /\ opt'[b] = opt[b]
              /\ status' = status
              /\ \A c \in Builders \ {b} :
                    ty'[c] = ty[c] /\ inner'[c] = inner[c] /\ opt'[c] = opt[c]]_vars

C4_Witness ==
    \E b \in Builders :
        /\ Live(b) /\ R = 2 /\ P = 1
        /\ generics # <<>>
        /\ Marker(b, 1) = "O" /\ Marker(b, 2) = "I"
        /\ inner[b].f[2] = 2
        /\ opt[b][1] = 1

\* C5: while a builder lives, each step either keeps its marker vector or turns
\* exactly one marker from Unset to Set; no marker goes back to Unset.
C5_MarkersOneStepUp ==
    [][\A b \in Builders :
          (Live(b) /\ status'[b] = "live") =>
              \/ ty'[b] = ty[b]
              \/ \E k \in 1..R :
                    /\ ty[b][k] = "O"
                    /\ ty'[b] = [ty[b] EXCEPT ![k] = "I"]]_vars

C5_Witness ==
    \E b \in Builders : Live(b) /\ R = 3 /\ AllSet(b)

\* C6: the builder the constructor returns has every marker Unset and every
\* optional field empty; in strategy B its inner is Occupied with every required
\* slot uninitialized, in strategy A every required slot is empty.
C6_ConstructorState ==
    out.op = "new" =>
        /\ Live(out.b)
        /\ ty[out.b] = [j \in 1..R |-> "O"] \o generics
        /\ opt[out.b] = [j \in 1..P |-> NoneVal]
        /\ strategy = "B" =>
              /\ inner[out.b].tag = "Inner"
              /\ inner[out.b].f = [k \in 1..R |-> Uninit]
        /\ strategy = "A" => inner[out.b].f = [k \in 1..R |-> NoneVal]

C6_Witness == out.op = "new" /\ strategy = "B" /\ R = 2 /\ P = 1

\* C7: for required fields a, b and optional field c, build is enabled on a live
\* builder exactly when a and b have both been set, whether or not c was set,
\* and the setter of c is enabled on every live builder.
C7_BuildAfterBothRequired ==
    (TestSchema /\ Defined) =>
        \A b \in Builders :
            Live(b) =>
                /\ (ENABLED Build(b)) <=> (args[b][1] # NoneVal /\ args[b][2] # NoneVal)
                /\ \A v \in Vals : ENABLED SetOptional(b, 1, v)

C7_Witness ==
    /\ TestSchema
    /\ Defined
    /\ \E b \in Builders :
          /\ Live(b)
          /\ args[b] = <<1, 2, NoneVal>>
          /\ ENABLED Build(b)

\* C8: the record build returns holds, for every field, the value last handed
\* to that field's setter, and the empty value for an optional field whose
\* setter was never called.
C8_BuildYieldsSetterValues ==
    [][\A b \in Builders :
          (Build(b) /\ out'.op = "build") =>
              /\ out'.val = args[b]
              /\ \A i \in 1..Len(schema) :
                    RequiredField(i) => out'.val[i] \in Vals]_vars

C8_Witness ==
    /\ TestSchema
    /\ out.op = "build"
    /\ out.val = <<1, 2, NoneVal>>

\* C9: the builder clone returns has the marker vector of its source, the same
\* value in every Set required slot and the same optional fields; afterwards a
\* setter or build applied to one builder changes nothing the other holds.
C9_CloneIndependent ==
    /\ [](out.op = "clone" =>
            /\ Live(out.b) /\ Live(out.from)
            /\ ty[out.b] = ty[out.from]
            /\ opt[out.b] = opt[out.from]
            /\ \A k \in 1..R :
                  Marker(out.from, k) = "I" =>
                      /\ inner[out.b].f[k] \in Vals
                      /\ inner[out.b].f[k] = inner[out.from].f[k])
    /\ [][\A b \in Builders :
            ((\E k \in 1..R, v \in Vals : SetRequired(b, k, v))
               \/ (\E j \in 1..P, v \in Vals : SetOptional(b, j, v))
               \/ Build(b)) =>
                \A c \in Builders \ {b} :
                    /\ status'[c] = status[c]
                    /\ ty'[c] = ty[c]
                    /\ inner'[c] = inner[c]
                    /\ opt'[c] = opt[c]]_vars

\* The test's run: a is set, the builder is cloned, then b is set to different
\* values on the two builders, both of which can be built.
C9_Witness ==
    /\ TestSchema
    /\ strategy = "B"
    /\ Defined
    /\ Live(1) /\ Live(2)
    /\ inner[1].f = <<1, 2>> /\ inner[2].f = <<1, 1>>
    /\ ENABLED Build(1)
    /\ ENABLED Build(2)

\* C10: what inspect displays for a required field is the field's value when its
\* marker is Set and the fixed placeholder when it is Unset, and for an optional
\* field its current value; inspect reads no slot that holds no value and trips
\* no internal assertion.
C10_InspectShowsValueOrPlaceholder ==
    /\ out.op = "inspect" =>
          /\ \A k \in 1..R :
                out.val.req[k] =
                    IF Marker(out.b, k) = "I" THEN args[out.b][fields[k]] ELSE Placeholder
          /\ \A k \in 1..R : Marker(out.b, k) = "I" => out.val.req[k] \in Vals
          /\ out.val.opt = opt[out.b]
          /\ \A j \in 1..P : out.val.opt[j] = args[out.b][opt_fields[j]]
    /\ \A a \in touched : a.op # "inspect"
    /\ "inspect" \notin panics

C10_Witness ==
    /\ out.op = "inspect"
    /\ strategy = "B"
    /\ R = 2 /\ P = 1
    /\ Marker(out.b, 1) = "O" /\ Marker(out.b, 2) = "I"
    /\ out.val.req = <<Placeholder, 2>>
    /\ out.val.opt = <<NoneVal>>

\* C11: a drop of a live builder releases every required field whose marker is
\* Set, once, and no required field whose marker is Unset.
C11_DropReleasesExactlySet ==
    [][\A b \in Builders :
          (Live(b) /\ status'[b] = "dropped") =>
              \A k \in 1..R :
                  released'[b][k] =
                      released[b][k] + (IF Marker(b, k) = "I" THEN 1 ELSE 0)]_vars

\* C12: in strategy B a value handed to a required setter is released once and
\* only once: a required setter releases nothing and keeps the values of the
\* other Set slots, a drop releases each Set slot that was not released before,
\* a build releases nothing and hands every slot's value over in the record, and
\* no slot is ever released twice.
C12_ReleasedExactlyOnce ==
    /\ [](strategy = "B" => \A b \in Builders, k \in 1..R : released[b][k] <= 1)
    /\ [][strategy = "B" =>
            \A b \in Builders :
                /\ \A k \in 1..R, v \in Vals :
                       SetRequired(b, k, v) =>
                           /\ released' = released
                           /\ \A j \in 1..R :
                                  Marker(b, j) = "I" => inner'[b].f[j] = inner[b].f[j]
                /\ (Live(b) /\ status'[b] = "dropped") =>
                       \A k \in 1..R :
                           Marker(b, k) = "I" =>
                               released[b][k] = 0 /\ released'[b][k] = 1
                /\ (Live(b) /\ status'[b] = "built") =>
                       /\ released' = released
                       /\ out'.op = "build"
                       /\ \A k \in 1..R : out'.val[fields[k]] = inner[b].f[k]]_vars

C12_Witness ==
    /\ strategy = "B"
    /\ R = 2
    /\ Defined
    /\ status[1] = "dropped"
    /\ released[1] = <<1, 1, 0>>
    /\ status[2] = "built"
    /\ released[2] = <<0, 0, 0>>

\* C13: with a validator configured, a build calls the validator exactly once,
\* on the record assembled from every required and optional field of a builder
\* whose markers are all Set, and no other operation calls it.
C13_ValidatorOnceAfterAssembly ==
    /\ [](validator.fn # "id" =>
            /\ Len(called) = (IF out.op = "build" THEN 1 ELSE 0)
            /\ \A n \in 1..Len(called) :
                  /\ called[n].fn = validator.fn
                  /\ Len(called[n].arg) = Len(schema)
                  /\ \A i \in 1..Len(schema) :
                        RequiredField(i) => called[n].arg[i] \in Vals)
    /\ [][validator.fn # "id" =>
            \A b \in Builders :
                Build(b) =>
                    /\ AllSet(b)
                    /\ called' = <<[fn |-> validator.fn, arg |-> args[b]]>>]_vars

C13_Witness ==
    /\ validator.fn = "check"
    /\ TestSchema
    /\ out.op = "build"
    /\ called = <<[fn |-> "check", arg |-> <<2, 1, 1>>]>>

\* C14: build returns what the validator returns.  The validator that accepts
\* one value of the first field makes build return the error for every other
\* value and the assembled record as success for the accepted one; a validator
\* that hands the record back, and no validator at all, make build return the
\* assembled record.
C14_BuildReturnsValidatorResult ==
    [][\A b \in Builders :
          (Build(b) /\ out'.op = "build") =>
              /\ [variant |-> variant', val |-> out'.val] = Validate(validator.fn, args[b])
              /\ (validator.fn = "check" /\ args[b][1] = 1) =>
                     variant' = "Ok" /\ out'.val = args[b]
              /\ (validator.fn = "check" /\ args[b][1] # 1) =>
                     variant' = "Err" /\ out'.val = <<>>
              /\ validator.fn \in {"id", "keep"} =>
                     variant' = "Record" /\ out'.val = args[b]]_vars

C14_Witness ==
    /\ validator = [fn |-> "check", error |-> "BuildError"]
    /\ TestSchema
    /\ out.op = "build"
    /\ variant = "Err"
    /\ called = <<[fn |-> "check", arg |-> <<2, 1, NoneVal>>]>>

\* C15 as stated: build returns a result type exactly when a validator is
\* configured, and the plain record exactly when none is.
C15_ResultKindByValidator ==
    out.op = "build" =>
        /\ variant \in {"Ok", "Err"} <=> validator.fn # "id"
        /\ variant = "Record" <=> validator.fn = "id"

\* C15 amended: build returns a result type exactly when the validator
\* directive names an error type, and the plain record otherwise, also when a
\* validator is configured without an error type; in each of these
\* configurations build exists on every builder whose markers are all Set.
C15_ResultKindByErrorType ==
    /\ out.op = "build" =>
          /\ variant \in {"Ok", "Err"} <=> validator.error # NoError
          /\ variant = "Record" <=> validator.error = NoError
    /\ \A b \in Builders :
          (Live(b) /\ AllSet(b) /\ Defined) => ENABLED Build(b)

C15_Witness ==
    /\ validator = [fn |-> "keep", error |-> NoError]
    /\ out.op = "build"
    /\ variant = "Record"
    /\ Len(called) = 1

\* C16: in strategy A required slot k of a live builder holds a value exactly
\* when marker k is Set, so no unwrap of build fails: wherever build is
\* enabled every required slot holds a value, and the unwrap panic never fires.
C16_SlotFilledIffSet ==
    strategy = "A" =>
        /\ "unwrap" \notin panics
        /\ \A b \in Builders :
              Live(b) =>
                  /\ \A k \in 1..R :
                        /\ inner[b].f[k] \in Vals \cup {NoneVal}
                        /\ inner[b].f[k] # NoneVal <=> Marker(b, k) = "I"
                  /\ (ENABLED Build(b)) => ~UnwrapFails(b)

C16_Witness ==
    /\ strategy = "A"
    /\ R = 3
    /\ Live(1)
    /\ Markers(1) = <<"I", "O", "I">>
    /\ inner[1].f = <<2, NoneVal, 1>>

\* What a caller can observe of a builder, told from the calls made on it alone
\* (args holds the value each setter was last called with): which calls compile
\* next, and the record build returns.
SetterCallable(b, i) == args[b][i] = NoneVal

BuildCallable(b) == \A i \in 1..Len(schema) : RequiredField(i) => args[b][i] # NoneVal

\* C17: with no validator, the nullable-slot and the raw-slot builder of the
\* same record behave alike under the same constructor, setter and build
\* calls: in either strategy the calls enabled on a builder and the record build
\* returns are the same function of the calls made so far.
C17_StrategiesAgree ==
    /\ [](Defined =>
            /\ (ENABLED New(1)) <=> Free(1)
            /\ \A b \in Builders :
                  Live(b) =>
                      /\ \A k \in 1..R, v \in Vals :
                            (ENABLED SetRequired(b, k, v)) <=> SetterCallable(b, fields[k])
                      /\ \A j \in 1..P, v \in Vals : ENABLED SetOptional(b, j, v)
                      /\ (ENABLED Build(b)) <=> BuildCallable(b))
    /\ [][\A b \in Builders :
            /\ Build(b) =>
                   /\ out' = Result("build", b, 0, args[b])
                   /\ variant' = "Record"
                   /\ panics' = panics
            /\ \A k \in 1..R, v \in Vals :
                   SetRequired(b, k, v) =>
                       /\ status'[b] = "live"
                       /\ panics' = panics
                       /\ out' = Quiet]_vars

C17_Witness ==
    /\ strategy = "A"
    /\ TestSchema
    /\ generics = <<"T">>
    /\ out = Result("build", 1, 0, <<2, 1, 2>>)

\* What the claims about generation speak of, told from the derive input alone.
Carries(attrs, name) == Len(SelectSeq(attrs, LAMBDA a : a.name = name))

Finished == gen.pc \in {"returned", "panicked"}

Aborted == gen.pc = "panicked" /\ gen.err # "" /\ gen.ret = <<>>

\* More than one naming directive, validator directive or setter-prefix
\* directive on the record, or more than one setter-prefix directive on a field.
HasDuplicate ==
    \/ \E name \in {"builder_names", "builder_name", "builder_rename",
                      "builder_validate", "builder_prefix"} :
          Carries(item.attrs, name) > 1
    \/ \E i \in 1..GenFields : Carries(item.fattrs[i], "builder_prefix") > 1

\* C18: a struct that carries a duplicate directive makes generation abort with
\* an error and return no code.
C18_DuplicateDirectiveAborts ==
    (Finished /\ item.body = "Struct" /\ HasDuplicate) => Aborted

\* A naming directive with an unknown key or a value that is no string, a
\* validator directive without validator function, or a path that does not parse.
MalformedEntry(a) ==
    \/ /\ a.name = "builder_names"
       /\ \E n \in 1..Len(a.nested) :
             ~Named_from_str(a.nested[n].key) \/ ~a.nested[n].lit.str
    \/ /\ a.name = "builder_validate"
       /\ \/ \A n \in 1..Len(a.nested) : a.nested[n].key # "validator"
          \/ \E n \in 1..Len(a.nested) : a.nested[n].lit.v = MalformedPath

HasMalformed == \E n \in 1..Len(item.attrs) : MalformedEntry(item.attrs[n])

\* C19: a struct that carries a malformed directive makes generation abort
\* with an error and return no code.
C19_MalformedDirectiveAborts ==
    (Finished /\ item.body = "Struct" /\ HasMalformed) => Aborted

\* The chunks of a complete builder: the type, the constructor, the build
\* method and one setter per field.
Complete(tks) ==
    /\ \E n \in 1..Len(tks) : tks[n] = Chunk("struct", gen.names.builder)
    /\ \E n \in 1..Len(tks) : tks[n] = Chunk("fn", gen.names.new)
    /\ \E n \in 1..Len(tks) : tks[n] = Chunk("fn", gen.names.build)
    /\ Cardinality({n \in 1..Len(tks) : tks[n].kind = "setter"}) = GenFields

\* C20: anything but a struct ends generation with the error "Only structs
\* supported."; a generation that ends with an error returns nothing, nothing
\* is returned before generation ends, and what a successful generation
\* returns is the complete builder.
C20_ErrorEmitsNothing ==
    /\ (item.body # "Struct" /\ gen.pc # "start") =>
          Aborted /\ gen.err = "Only structs supported."
    /\ gen.pc = "panicked" => Aborted
    /\ gen.pc # "returned" => gen.ret = <<>>
    /\ gen.pc = "returned" => gen.err = "" /\ gen.ret = gen.tks /\ Complete(gen.ret)

\* A generation that fails at the second setter: the builder type, its methods
\* and the first setter were gathered, nothing was returned.
C20_Witness ==
    /\ gen.pc = "panicked"
    /\ gen.err = "Only one #[builder_prefix] attribute supported per item."
    /\ \E n \in 1..Len(gen.tks) : gen.tks[n].kind = "setter"
    /\ gen.ret = <<>>

\* The names the record's naming directives give for one of builder, new and
\* build, told from the derive input alone.
NamingPairs ==
    UNION {{<<a.nested[n].key, a.nested[n].lit>> : n \in 1..Len(a.nested)} :
             a \in {item.attrs[x] :
                      x \in {y \in 1..Len(item.attrs) :
                                item.attrs[y].name \in {"builder_names", "builder_rename"}}}}
    \cup {<<"builder", item.attrs[x].lit>> :
             x \in {y \in 1..Len(item.attrs) : item.attrs[y].name = "builder_name"}}

GivenNames(key) == {p[2].v : p \in {q \in NamingPairs : q[1] = key /\ q[2].str}}

NameKind(key) == IF key = "builder" THEN "struct" ELSE "fn"

\* C21: in the code a well-formed generation returns, the builder type, the
\* constructor and the build method each carry the name the naming directive
\* gives for it, and the default Builder, new, build when it gives none,
\* whatever it gives for the other two.
C21_NamesGivenOrDefault ==
    (gen.pc = "returned" /\ ~HasDuplicate /\ ~HasMalformed) =>
        \A key \in {"builder", "new", "build"} :
            /\ IF GivenNames(key) = {}
               THEN gen.names[key] = DefaultNames[key]
               ELSE gen.names[key] \in GivenNames(key)
            /\ \E n \in 1..Len(gen.ret) : gen.ret[n] = Chunk(NameKind(key), gen.names[key])

\* The setter prefixes a list of attributes gives (its string-valued
\* builder_prefix directives), told from the derive input alone.
GivenPrefixes(attrs) ==
    {attrs[x].lit.v :
        x \in {y \in 1..Len(attrs) : attrs[y].name = "builder_prefix" /\ attrs[y].lit.str}}

\* The prefix field i is to carry: its own, else the record's, else none.
ExpectedPrefixes(i) ==
    IF GivenPrefixes(item.fattrs[i]) # {} THEN GivenPrefixes(item.fattrs[i])
    ELSE IF GivenPrefixes(item.attrs) # {} THEN GivenPrefixes(item.attrs)
    ELSE {""}

SettersOf(tks) == {tks[n].name : n \in {m \in 1..Len(tks) : tks[m].kind = "setter"}}

\* C22: the code a generation returns holds one setter per field, named prefix
\* + field name with the field's own prefix directive if it has one, else the
\* record's, else the empty prefix; a field without prefix directive of its own
\* is named by the record's prefix whatever the other fields carry.
C22_SetterNamedByPrefix ==
    gen.pc = "returned" =>
        /\ Cardinality({n \in 1..Len(gen.ret) : gen.ret[n].kind = "setter"}) = GenFields
        /\ \A i \in 1..GenFields :
              \E p \in ExpectedPrefixes(i) : (p \o raw_name(i)) \in SettersOf(gen.ret)
        /\ \A name \in SettersOf(gen.ret) :
              \E i \in 1..GenFields :
                  \E p \in ExpectedPrefixes(i) : name = p \o raw_name(i)

\* A record with prefix set_ whose first field carries its own prefix with_.
C22_Witness ==
    /\ gen.pc = "returned"
    /\ strategy = "B"
    /\ item.attrs = <<NameValue("builder_prefix", Str("set_"))>>
    /\ item.fattrs[1] = <<NameValue("builder_prefix", Str("with_"))>>
    /\ item.fattrs[2] = <<>>
    /\ {"with_f1", "set_f2"} \subseteq SettersOf(gen.ret)

Kinds(tks) == [n \in 1..Len(tks) |-> tks[n].kind]

\* C23: whatever the naming and prefix directives of a record are, the code a
\* generation returns differs in identifiers only (the same items in the same
\* order, each operation under a name of its own), and the builders made with
\* it have, as a function of the setter calls made so far and of nothing else,
\* the same marker vector, the same enabled setters and build, the same stored
\* values and the same record from build.
C23_RenamingKeepsMachine ==
    /\ [](gen.pc = "returned" =>
            /\ Kinds(gen.ret) = Kinds(BaseChunks) \o [i \in 1..GenFields |-> "setter"]
            /\ Cardinality(SettersOf(gen.ret)) = GenFields
            /\ Cardinality({gen.names.new, gen.names.build} \cup SettersOf(gen.ret))
                   = GenFields + 2
            /\ fields = partition.req
            /\ opt_fields = partition.opt
            /\ \A b \in Builders :
                  (Live(b) /\ Defined) =>
                      /\ \A k \in 1..R :
                            /\ Marker(b, k) = (IF args[b][fields[k]] = NoneVal THEN "O" ELSE "I")
                            /\ Marker(b, k) = "I" => inner[b].f[k] = args[b][fields[k]]
                            /\ \A v \in Vals :
                                  (ENABLED SetRequired(b, k, v)) <=> SetterCallable(b, fields[k])
                      /\ \A j \in 1..P :
                            /\ opt[b][j] = args[b][opt_fields[j]]
                            /\ \A v \in Vals : ENABLED SetOptional(b, j, v)
                      /\ (ENABLED Build(b)) <=> BuildCallable(b))
    /\ [][\A b \in Builders :
            Build(b) => out' = Result("build", b, 0, args[b]) /\ variant' = "Record"]_vars

\* A record generated with renamed constructor and build and a field prefix,
\* built after both required fields were set.
C23_Witness ==
    /\ gen.pc = "returned"
    /\ gen.names.new = "create"
    /\ gen.names.build = "finish"
    /\ "with_f1" \in SettersOf(gen.ret)
    /\ R >= 2
    /\ out.op = "build"
    /\ out.val[1] = 2 /\ out.val[2] = 1

\* The capabilities the record's directives ask for, told from the derive input.
Requested(trait) ==
    \E x \in 1..Len(item.attrs) :
        /\ item.attrs[x].name = "builder_derive"
        /\ \E n \in 1..Len(item.attrs[x].nested) : item.attrs[x].nested[n].key = trait

Emitted(trait) == \E n \in 1..Len(gen.ret) : gen.ret[n] = Chunk("impl", trait)

\* C24: the code a generation returns holds the builder's Clone exactly when
\* the record's directives ask for Clone and its Debug exactly when they ask for
\* Debug; a record that asks for neither gets neither.
C24_CapabilityIffRequested ==
    gen.pc = "returned" =>
        /\ Emitted("Clone") <=> Requested("Clone")
        /\ Emitted("Debug") <=> Requested("Debug")

\* C25: a builder that was generated with Clone can be cloned, and one that was
\* generated with Debug inspected, in every marker state: with every required
\* field Unset, with some Set, with all Set.
C25_CapabilitiesInEveryState ==
    \A b \in Builders :
        (Live(b) /\ Defined) =>
            /\ ("Clone" \in derives /\ \E c \in Builders : NextFree(c)) =>
                   \E c \in Builders : ENABLED Clone(b, c)
            /\ "Debug" \in derives => ENABLED Inspect(b)

OptionOnly == \A i \in 1..Len(schema) : is_option(schema[i])

\* C26: the builder of a record without required field has no marker (its type
\* arguments are the record's own type parameters), and build is enabled on it
\* as long as it lives: right after the constructor and before and after every
\* optional setter.
C26_NoRequiredNoMarker ==
    /\ [](OptionOnly =>
            /\ R = 0
            /\ start_generics = generics /\ end_generics = generics
            /\ \A b \in Builders :
                  Live(b) => ty[b] = generics /\ ENABLED Build(b))
    /\ [][OptionOnly =>
            \A b \in Builders, j \in 1..P, v \in Vals :
                SetOptional(b, j, v) => (ENABLED Build(b)) /\ (ENABLED Build(b))']_vars

\* A record of two optional fields, built after one of them was set.
C26_Witness ==
    /\ OptionOnly
    /\ Len(schema) = 2
    /\ out.op = "build"
    /\ out.val = <<NoneVal, 2>>

\* The declared type of field i is an Option, however its path is written.
DeclaredOption(i) == Segments(schema[i])[Len(Segments(schema[i]))] = "Option"

Members(seq) == {seq[n] : n \in 1..Len(seq)}

\* C27: once the generator has split the fields, every field is in exactly one
\* of the required and the optional list, it is in the optional list exactly
\* when its declared type is an Option, and the required fields stand in
\* declaration order, one marker parameter each.
C27_FieldsClassifiedByOption ==
    gen.pc \in {"base", "setters", "returned"} =>
        /\ Members(fields) \cup Members(opt_fields) = 1..Len(schema)
        /\ Members(fields) \cap Members(opt_fields) = {}
        /\ Len(fields) + Len(opt_fields) = Len(schema)
        /\ \A i \in 1..Len(schema) : i \in Members(opt_fields) <=> DeclaredOption(i)
        /\ \A m, n \in 1..Len(fields) : m < n => fields[m] < fields[n]
        /\ Len(builder_ty_params) = Len(fields)

\* The caller can apply some operation of the API to handle b, or let it go out
\* of scope.
Usable(b) ==
    \/ ENABLED Build(b)
    \/ ENABLED Drop(b)
    \/ ENABLED Inspect(b)
    \/ \E c \in Builders : ENABLED Clone(b, c)
    \/ \E k \in 1..R, v \in Vals : ENABLED Enter(b, k, v)
    \/ \E j \in 1..P, v \in Vals : ENABLED SetOptional(b, j, v)

\* Handle c holds the storage handle b holds: the bit copy of the transplant.
SameStorage(b, c) == b # c /\ InSetter(b) /\ Local(c) /\ out = Result("read", c, b, <<>>)

\* C28: a required setter and build take the caller's handle away: from the
\* call on the source is usable no more, the one handle that becomes usable in
\* its place is the builder the setter returns, and it becomes so only when the
\* source is gone.  While the raw-slot setter holds two bit copies of the same
\* storage neither can be used, dropped or returned; the one step possible is
\* the forgetting of the source, which releases nothing.
C28_OneUsableHandle ==
    /\ [](\A b \in Builders :
            /\ (InSetter(b) \/ Local(b) \/ status[b] \in {"built", "dropped"}) => ~Usable(b)
            /\ Local(b) => out.b = b /\ ~Live(out.from)
            /\ \A c \in Builders :
                  SameStorage(b, c) =>
                      /\ ~ENABLED SetterReturn(c)
                      /\ ENABLED Forget(b))
    /\ [][\A b \in Builders :
            /\ ((\E k \in 1..R, v \in Vals : Enter(b, k, v)) \/ Build(b)) => ~Live(b)'
            /\ InSetter(b) => status'[b] \in {"self", "none"}
            /\ Forget(b) => released' = released /\ inner'[out.b] = inner[b]
            /\ (Local(b) /\ Live(b)') => status[out.from] = "none"
            /\ (~Live(b) /\ Live(b)') =>
                   \/ Local(b)
                   \/ Free(b) /\ out'.op \in {"new", "clone"} /\ out'.b = b]_vars

\* The raw-slot setter of the second required field between its ptr::read and
\* its mem::forget: self and out are bit copies of each other.
C28_Witness ==
    /\ strategy = "B"
    /\ R = 2
    /\ SameStorage(2, 1)
    /\ inner[1].f = <<1, 2>>
    /\ inner[2].f = <<1, 2>>
    /\ ty[1] = <<"I", "I">>

\* C29: build ends a builder: on a builder that was built no required or
\* optional setter, clone, inspect or build is enabled, it stays built for the
\* rest of the run, and a build step is taken on a live builder only; so no
\* builder is built twice.
C29_BuildIsTerminal ==
    /\ [](\A b \in Builders :
            status[b] = "built" =>
                /\ ~ENABLED Build(b)
                /\ ~ENABLED Inspect(b)
                /\ \A c \in Builders : ~ENABLED Clone(b, c)
                /\ \A k \in 1..MaxFields, v \in Vals :
                      ~ENABLED SetRequired(b, k, v) /\ ~ENABLED SetOptional(b, k, v))
    /\ [][\A b \in Builders :
            /\ status[b] = "built" => status'[b] = "built"
            /\ Build(b) => status[b] = "live" /\ status'[b] = "built"]_vars

\* Both builders of the pool were built, one of them after it was cloned.
C29_Witness ==
    /\ status[1] = "built"
    /\ status[2] = "built"
    /\ R >= 1
    /\ out.op = "build"

\* C30: in the raw-slot destructor the discriminant is Empty from the first
\* statement on, before any field is released; a field is released only by a
\* run that found the discriminant Occupied, and only if its marker is Set; a
\* run of the destructor on a builder whose destructor is running or has run,
\* or which was built, finds Empty and releases nothing; no field is released
\* twice.
C30_DropEmptiesFirst ==
    /\ [](\A b \in Builders :
            /\ Dropping(b) => inner[b].tag = "Empty"
            /\ \A k \in 1..MaxFields : released[b][k] <= 1)
    /\ [][\A b \in Builders :
            /\ released'[b] # released[b] =>
                   /\ inner[b].tag = "Empty"
                   /\ out.op = "swap" /\ out.b = b /\ out.val.tag = "Inner"
                   /\ Marker(b, out.from) = "I"
            /\ DropSwap(b) => inner'[b].tag = "Empty" /\ released' = released
            /\ DropAgain(b) => released' = released /\ inner'[b].tag = "Empty"]_vars

\* A destructor that found both required fields Set has released the first, and
\* the discriminant is Empty.
C30_Witness ==
    /\ Dropping(1)
    /\ R = 2
    /\ Markers(1) = <<"I", "I">>
    /\ released[1] = <<1, 0, 0>>
    /\ out.from = 2
    /\ inner[1] = EmptyInner


\* C31: strategy B build sets the discriminant to Empty and moves every
\* required value into the record, so the destructor that runs on the consumed
\* builder when build returns releases no required value, also when the
\* validator returned an error; a required value is released only with the
\* record that holds it, and once.
C31_BuildEmptiesThenNoRelease ==
    /\ [](\A b \in Builders :
            /\ Building(b) => inner[b].tag = "Empty"
            /\ status[b] \in {"building", "built"} =>
                   \A k \in 1..R : released[b][k] <= 1)
    /\ [][\A b \in Builders :
            /\ BuildEnd(b) => released' = released /\ inner'[b].tag = "Empty"
            /\ BuildCall(b) =>
                   IF variant' = "Err"
                   THEN \A k \in 1..R : released'[b][k] = 1
                   ELSE /\ released' = released
                        /\ \A k \in 1..R : out'.val[fields[k]] = out.val.f[k]]_vars

\* A build whose validator returned its error has returned: the two required
\* values went with the record and the builder's destructor released nothing more.
C31_Witness ==
    \E b \in Builders :
        /\ status[b] = "built"
        /\ out.op = "build" /\ out.b = b
        /\ variant = "Err"
        /\ R = 2
        /\ \A k \in 1..R : released[b][k] = 1

\* C32: strategy B: whenever a required setter, clone, inspect or build can be
\* invoked on a builder its discriminant is Inner; a builder whose discriminant
\* is Empty is inside build or its destructor, or is gone (built, dropped), so
\* none of the unreachable!() assertions of setter, clone, inspect and build
\* fires.
C32_OccupiedWhenInvocable ==
    /\ \A b \in Builders :
          /\ (\/ ENABLED BuildSwap(b)
              \/ ENABLED Inspect(b)
              \/ \E c \in Builders : ENABLED Clone(b, c)
              \/ \E k \in 1..MaxFields, v \in Vals : ENABLED SetRequired(b, k, v))
                => inner[b].tag = "Inner"
          /\ (inner[b].tag = "Empty" /\ ~Free(b))
                => status[b] \in {"building", "dropping", "built", "dropped"}
    /\ panics \cap {"set", "clone", "inspect", "build"} = {}

\* A build is running on one builder, whose discriminant is already Empty,
\* while its clone is still with the caller, complete and Occupied.
C32_Witness ==
    \E b \in Builders, c \in Builders :
        /\ Building(b)
        /\ inner[b].tag = "Empty"
        /\ Live(c)
        /\ inner[c].tag = "Inner"
        /\ R >= 1
        /\ Matches(end_generics, ty[c])

\* C33: the setter of an optional field is enabled on every live builder,
\* whatever its markers; it leaves the builder's type, its required slots and
\* its other optional fields as they were and makes its own field hold the
\* given value; an optional field that holds a value holds one as long as the
\* builder lives.
C33_OptionalSetterFrame ==
    /\ [](\A b \in Builders :
            (Defined /\ Live(b)) =>
                \A j \in 1..P, v \in Vals : ENABLED SetOptional(b, j, v))
    /\ [][\A b \in Builders :
            /\ \A j \in 1..MaxFields, v \in Vals :
                  SetOptional(b, j, v) =>
                      /\ ty'[b] = ty[b]
                      /\ inner' = inner
                      /\ status' = status
                      /\ opt'[b][j] = v
                      /\ \A i \in 1..P : i # j => opt'[b][i] = opt[b][i]
                      /\ \A c \in Builders : c # b => opt'[c] = opt[c]
            /\ (Live(b) /\ status'[b] = "live") =>
                  \A j \in 1..P : opt[b][j] # NoneVal => opt'[b][j] # NoneVal]_vars

\* A builder with one required field, Set, and two optional fields that both
\* hold a value.
C33_Witness ==
    \E b \in Builders :
        /\ Live(b)
        /\ R = 1 /\ P = 2
        /\ Marker(b, 1) = "I"
        /\ opt[b] = <<2, 1>>
        /\ out = Quiet

\* C34: strategy B clone: the placeholder fabricated for a required field whose
\* marker is Unset is neither read nor released by the clone, also when the
\* clone of a later field panics and what was built of the copy is discarded:
\* no access of the clone operation meets a slot that holds no value.
C34_PlaceholderNeverReleased ==
    strategy = "B" => \A a \in touched : a.op # "clone"

\* C35: strategy B destructor under failure: when the release of a Set
\* required field panics inside the destructor, the fields after it are still
\* handled by their markers: a field whose marker is Unset is not released and
\* no Set field is released twice.
C35_DropUnderFailure ==
    [][\A b \in Builders, p \in 1..MaxFields :
          DropPanics(b, p) =>
              \A k \in 1..R :
                  /\ Marker(b, k) = "O" => released'[b][k] = released[b][k]
                  /\ Marker(b, k) = "I" => released'[b][k] <= 1]_vars

\* C36: for a record with unnamed fields the generated setters of two distinct
\* fields that are under the same prefix have distinct names, whatever the mix
\* of required and optional fields.
C36_SynthesizedNamesDistinct ==
    (gen.pc = "returned" /\ item.body = "Tuple") =>
        \A i \in 1..Len(schema), j \in 1..Len(schema) :
            (/\ i # j
             /\ FieldPrefix(i).prefix = FieldPrefix(j).prefix
             /\ \E m \in 1..Len(gen.ret) : gen.ret[m] = SetterChunk(i)
             /\ \E n \in 1..Len(gen.ret) : gen.ret[n] = SetterChunk(j))
                => SetterChunk(i).name # SetterChunk(j).name
====
